---- MODULE Spec2Model ----
(***************************************************************************)
(* EFI Boot Guard, tools/bg_setenv.c: the environment tool bg_setenv.      *)
(*                                                                         *)
(* One run of the tool is a session: argp walks the command line and calls *)
(* parse_setenv_opt once per option (action ParseOpt), which fills the     *)
(* action journal; then bg_setenv opens the target environment, replays    *)
(* the journal on it (update_environment), and stores it (action           *)
(* RunSetenv).  The environment library (libebgenv) is not a part         *)
(* of bg_setenv.c and is modelled after the specification's description    *)
(* of the collaborators.                                                   *)
(*                                                                         *)
(* C strings are sequences of one-character strings, without the           *)
(* terminating zero.  Integer widths are scaled down, keeping their order  *)
(* (uint16 < int < uint32 < long), so that every range check of the code   *)
(* has inputs on both sides of it.                                         *)
(***************************************************************************)
EXTENDS Integers, Sequences, FiniteSets, TLC

(***************************************************************************)
(* Bounds of the model.                                                    *)
(***************************************************************************)
\* options parsed in all sessions of one behaviour
MaxOpts == 3
\* scaled integer widths: uint8_t, uint16_t, int, long (uint32_t is twice the
\* int range)
UINT8_MAX == 127
UINT16_MAX == 255
INT_MAX == 2047
LONG_MAX == 32767

INT_MIN == -INT_MAX - 1
LONG_MIN == -LONG_MAX - 1
UINT32_MAX == 2 * INT_MAX + 1

\* conversion of a C integer to an unsigned type of maximum max
ToUnsigned(v, max) == ((v % (max + 1)) + (max + 1)) % (max + 1)

(***************************************************************************)
(* Strings.                                                                *)
(***************************************************************************)
Digits == <<"0", "1", "2", "3", "4", "5", "6", "7", "8", "9">>

IsDigit(c) == \E i \in 1..10 : Digits[i] = c

DigitVal(c) == (CHOOSE i \in 1..10 : Digits[i] = c) - 1

IsSpace(c) == c = " "

Lower == <<"a", "b", "c", "d", "e", "f", "g", "h", "i", "j", "k", "l", "m",
           "n", "o", "p", "q", "r", "s", "t", "u", "v", "w", "x", "y", "z">>
Upper == <<"A", "B", "C", "D", "E", "F", "G", "H", "I", "J", "K", "L", "M",
           "N", "O", "P", "Q", "R", "S", "T", "U", "V", "W", "X", "Y", "Z">>

\* tolower, as strncasecmp applies it to both sides
ToLower(c) == IF \E i \in 1..26 : Upper[i] = c
              THEN Lower[CHOOSE i \in 1..26 : Upper[i] = c]
              ELSE c

\* strncasecmp(s, name, strlen(name)) == 0
PrefixNoCase(s, name) ==
    /\ Len(s) >= Len(name)
    /\ \A i \in 1..Len(name) : ToLower(s[i]) = ToLower(name[i])

\* the part of s from position i on
From(s, i) == IF i > Len(s) THEN << >> ELSE SubSeq(s, i, Len(s))

\* number of leading characters of s that satisfy the test of strtol's phases
RECURSIVE SpanSpaces(_)
SpanSpaces(s) == IF s /= << >> /\ IsSpace(Head(s)) THEN 1 + SpanSpaces(Tail(s)) ELSE 0

RECURSIVE SpanDigits(_)
SpanDigits(s) == IF s /= << >> /\ IsDigit(Head(s)) THEN 1 + SpanDigits(Tail(s)) ELSE 0

\* value of a sequence of digits, saturating above LONG_MAX + 2
RECURSIVE DigitsValue(_, _)
DigitsValue(s, acc) ==
    IF s = << >> THEN acc
    ELSE LET v == acc * 10 + DigitVal(Head(s))
         IN  DigitsValue(Tail(s), IF v > LONG_MAX + 2 THEN LONG_MAX + 2 ELSE v)

(***************************************************************************)
(* strtol(arg, &tmp, 10): skips white space, takes an optional sign and    *)
(* the longest run of digits.  end is the number of characters before tmp  *)
(* (0: tmp == arg, no conversion), erange tells errno == ERANGE.           *)
(***************************************************************************)
\* the result for the magnitude mag of n digits after skipped other characters
StrtolResult(mag, neg, n, skipped) ==
    IF n = 0 THEN [val |-> 0, end |-> 0, erange |-> FALSE]
    ELSE IF ~neg /\ mag > LONG_MAX THEN [val |-> LONG_MAX, end |-> skipped + n, erange |-> TRUE]
    ELSE IF neg /\ -mag < LONG_MIN THEN [val |-> LONG_MIN, end |-> skipped + n, erange |-> TRUE]
    ELSE [val |-> IF neg THEN -mag ELSE mag, end |-> skipped + n, erange |-> FALSE]

StrtolDigits(digs, neg, skipped) ==
    StrtolResult(DigitsValue(SubSeq(digs, 1, SpanDigits(digs)), 0), neg, SpanDigits(digs),
                 skipped)

SignLen(s) == IF s /= << >> /\ Head(s) \in {"-", "+"} THEN 1 ELSE 0

StrtolSigned(rest, sp) ==
    StrtolDigits(From(rest, SignLen(rest) + 1), rest /= << >> /\ Head(rest) = "-",
                 sp + SignLen(rest))

strtol(arg) == StrtolSigned(From(arg, SpanSpaces(arg) + 1), SpanSpaces(arg))

(***************************************************************************)
(* parse_int: the whole argument must be a decimal number in the range of  *)
(* int.  err tells errno != 0 on return.                                   *)
(***************************************************************************)
ParseIntResult(r, len) ==
    IF \/ r.erange
       \/ r.end = 0
       \/ r.end /= len
       \/ r.val < INT_MIN
       \/ r.val > INT_MAX
    THEN [val |-> -1, err |-> TRUE]
    ELSE [val |-> r.val, err |-> FALSE]

parse_int(arg) == ParseIntResult(strtol(arg), Len(arg))

(***************************************************************************)
(* The update state.                                                       *)
(***************************************************************************)
USTATE_MIN == 0
USTATE_MAX == 4
USTATE_UNKNOWN == 4

ustatemap == << <<"O", "K">>,
                <<"I", "N", "S", "T", "A", "L", "L", "E", "D">>,
                <<"T", "E", "S", "T", "I", "N", "G">>,
                <<"F", "A", "I", "L", "E", "D">>,
                <<"U", "N", "K", "N", "O", "W", "N">> >>

\* the first i in USTATE_MIN .. USTATE_MAX - 1 whose name is a prefix of str
str2ustate(str) ==
    LET hits == {i \in USTATE_MIN..(USTATE_MAX - 1) : PrefixNoCase(str, ustatemap[i + 1])}
    IN  IF hits = {} THEN USTATE_UNKNOWN
        ELSE CHOOSE i \in hits : \A j \in hits : i <= j

\* as ustate2str, clamping to the last valid state
ustate2str_ClampToFailed(ustate) ==
    ustatemap[(IF ustate > USTATE_MAX - 1 THEN USTATE_MAX - 1 ELSE ustate) + 1]

ustate2str(ustate) ==
    ustatemap[(IF ustate > USTATE_MAX THEN USTATE_MAX ELSE ustate) + 1]

\* asprintf(&tmp, "%u", i) for i >= 0
RECURSIVE FormatUnsigned(_)
FormatUnsigned(i) ==
    IF i < 10 THEN <<Digits[i + 1]>>
    ELSE Append(FormatUnsigned(i \div 10), Digits[(i % 10) + 1])

(***************************************************************************)
(* The journal: a tail queue of actions.                                   *)
(***************************************************************************)
ENV_TASK_SET == "ENV_TASK_SET"
ENV_TASK_DEL == "ENV_TASK_DEL"

ENOMEM == 12
ARGP_ERR_UNKNOWN == 7

\* user variable type flags
USERVAR_STRING == {"USERVAR_TYPE_DEFAULT", "USERVAR_TYPE_STRING_ASCII"}
USERVAR_DELETED == {"USERVAR_TYPE_DEFAULT", "USERVAR_TYPE_DELETED"}

K_ustate == <<"u", "s", "t", "a", "t", "e">>
K_kernelfile == <<"k", "e", "r", "n", "e", "l", "f", "i", "l", "e">>
K_kernelparams == <<"k", "e", "r", "n", "e", "l", "p", "a", "r", "a", "m", "s">>
K_revision == <<"r", "e", "v", "i", "s", "i", "o", "n">>
K_in_progress == <<"i", "n", "_", "p", "r", "o", "g", "r", "e", "s", "s">>
K_watchdog == <<"w", "a", "t", "c", "h", "d", "o", "g", "_", "t", "i", "m", "e", "o", "u", "t",
                "_", "s", "e", "c">>

\* the new action of journal_add_action: data is copied when given (datalen
\* bytes, the string with its terminator), and absent (empty) otherwise
NewAction(task, key, type, data) ==
    [task |-> task, key |-> key, type |-> type, data |-> data]

\* as journal_add_action, with STAILQ_INSERT_HEAD
journal_add_action_AtHead(j, task, key, type, data, nomem) ==
    IF nomem THEN [e |-> ENOMEM, journal |-> j, new |-> << >>]
    ELSE [e |-> 0, journal |-> <<NewAction(task, key, type, data)>> \o j,
          new |-> <<NewAction(task, key, type, data)>>]

\* journal_add_action: STAILQ_INSERT_TAIL, or ENOMEM when an allocation fails.
\* new holds the action that was queued, if one was
journal_add_action(j, task, key, type, data, nomem) ==
    IF nomem THEN [e |-> ENOMEM, journal |-> j, new |-> << >>]
    ELSE [e |-> 0, journal |-> Append(j, NewAction(task, key, type, data)),
          new |-> <<NewAction(task, key, type, data)>>]

(***************************************************************************)
(* strtok(arg, "="): skip delimiters, take the token up to the next        *)
(* delimiter; rest is what a following strtok(NULL, "=") starts from.      *)
(***************************************************************************)
RECURSIVE SpanDelim(_)
SpanDelim(s) == IF s /= << >> /\ Head(s) = "=" THEN 1 + SpanDelim(Tail(s)) ELSE 0

RECURSIVE SpanToken(_)
SpanToken(s) == IF s /= << >> /\ Head(s) /= "=" THEN 1 + SpanToken(Tail(s)) ELSE 0

StrtokFrom(body) ==
    [null |-> SpanToken(body) = 0, tok |-> SubSeq(body, 1, SpanToken(body)),
     rest |-> From(body, SpanToken(body) + 2)]

strtok(s) == StrtokFrom(From(s, SpanDelim(s) + 1))

\* set_uservars after the two calls of strtok
SetUservarsTokens(j, key, value, nomem) ==
    IF key.null THEN [e |-> 0, journal |-> j, new |-> << >>]
    ELSE IF value.null
    THEN journal_add_action(j, ENV_TASK_DEL, key.tok, USERVAR_DELETED, << >>, nomem)
    ELSE journal_add_action(j, ENV_TASK_SET, key.tok, USERVAR_STRING, value.tok, nomem)

set_uservars(j, arg, nomem) ==
    SetUservarsTokens(j, strtok(arg), strtok(strtok(arg).rest), nomem)

(***************************************************************************)
(* Arguments of a session.  envfilepath is << >> for NULL and <<path>>     *)
(* for a path.                                                             *)
(***************************************************************************)
ENV_NUM_CONFIG_PARTS == 2
ENV_STRING_LENGTH == 10

FAT_ENV_FILENAME == <<"B", "G", "E", "N", "V", ".", "D", "A", "T">>

\* memset(&arguments, 0, sizeof(struct arguments_setenv))
NoArguments ==
    [envfilepath |-> << >>, verbosity |-> FALSE, which_part |-> 0,
     part_specified |-> FALSE, auto_update |-> FALSE, preserve_env |-> FALSE]

\* what a call of an option parser gives back: the error, the journal and the
\* arguments after it, the action it has queued, and whether the process has
\* exited inside it
Parsed(e, j, a) ==
    [e |-> e, journal |-> j, arguments |-> a, new |-> << >>, exited |-> FALSE]

(***************************************************************************)
(* parse_common_opt.  isdir: stat(arg) finds a directory; nomem: asprintf  *)
(* or strdup fails.                                                        *)
(***************************************************************************)
\* as parse_common_opt, with -p accepting every number that is not negative
parse_common_opt_AnyPart(key, arg, compat_mode, j, a, isdir, nomem) ==
    CASE key = "f" ->
           IF nomem THEN Parsed(ENOMEM, j, [a EXCEPT !.envfilepath = << >>])
           ELSE IF compat_mode /\ isdir
           THEN Parsed(0, j, [a EXCEPT !.envfilepath = <<arg \o <<"/">> \o FAT_ENV_FILENAME>>])
           ELSE Parsed(0, j, [a EXCEPT !.envfilepath = <<arg>>])
      [] key = "p" ->
           LET i == parse_int(arg)
           IN  IF i.err THEN Parsed(1, j, a)
               ELSE IF i.val >= 0
               THEN Parsed(0, j, [a EXCEPT !.which_part = i.val, !.part_specified = TRUE])
               ELSE Parsed(1, j, a)
      [] key = "v" -> Parsed(0, j, [a EXCEPT !.verbosity = TRUE])
      [] key = "V" -> [Parsed(0, j, a) EXCEPT !.exited = TRUE]
      [] OTHER -> Parsed(ARGP_ERR_UNKNOWN, j, a)

parse_common_opt(key, arg, compat_mode, j, a, isdir, nomem) ==
    CASE key = "f" ->
           IF nomem THEN Parsed(ENOMEM, j, [a EXCEPT !.envfilepath = << >>])
           ELSE IF compat_mode /\ isdir
           THEN Parsed(0, j, [a EXCEPT !.envfilepath = <<arg \o <<"/">> \o FAT_ENV_FILENAME>>])
           ELSE Parsed(0, j, [a EXCEPT !.envfilepath = <<arg>>])
      [] key = "p" ->
           LET i == parse_int(arg)
           IN  IF i.err THEN Parsed(1, j, a)
               ELSE IF i.val >= 0 /\ i.val < ENV_NUM_CONFIG_PARTS
               THEN Parsed(0, j, [a EXCEPT !.which_part = i.val, !.part_specified = TRUE])
               ELSE Parsed(1, j, a)
      [] key = "v" -> Parsed(0, j, [a EXCEPT !.verbosity = TRUE])
      [] key = "V" -> [Parsed(0, j, a) EXCEPT !.exited = TRUE]
      [] OTHER -> Parsed(ARGP_ERR_UNKNOWN, j, a)

\* what parse_setenv_opt returns after journal_add_action or set_uservars
Added(r, a) == [Parsed(r.e, r.journal, a) EXCEPT !.new = r.new]

\* the number i of case 's': the argument as a number, or else as a state name
UstateArg(arg) == IF parse_int(arg).err THEN str2ustate(arg) ELSE parse_int(arg).val

(***************************************************************************)
(* parse_setenv_opt, one call by argp for one option of the command line.  *)
(***************************************************************************)
parse_setenv_opt(key, arg, j, a, isdir, nomem) ==
    CASE key = "k" ->
           IF Len(arg) > ENV_STRING_LENGTH THEN Parsed(1, j, a)
           ELSE Added(journal_add_action(j, ENV_TASK_SET, K_kernelfile, {}, arg, nomem), a)
      [] key = "a" ->
           IF Len(arg) > ENV_STRING_LENGTH THEN Parsed(1, j, a)
           ELSE Added(journal_add_action(j, ENV_TASK_SET, K_kernelparams, {}, arg, nomem), a)
      [] key = "s" ->
           IF parse_int(arg).err /\ str2ustate(arg) = USTATE_UNKNOWN THEN Parsed(1, j, a)
           ELSE IF UstateArg(arg) < 0 \/ UstateArg(arg) > 3 THEN Parsed(1, j, a)
           ELSE IF nomem THEN Parsed(ENOMEM, j, a)
           ELSE Added(journal_add_action(j, ENV_TASK_SET, K_ustate, {},
                                         FormatUnsigned(UstateArg(arg)), FALSE), a)
      [] key = "i" ->
           LET p == parse_int(arg)
           IN  IF p.err THEN Parsed(1, j, a)
               ELSE IF p.val < 0 \/ p.val > 1 THEN Parsed(1, j, a)
               ELSE IF nomem THEN Parsed(ENOMEM, j, a)
               ELSE Added(journal_add_action(j, ENV_TASK_SET, K_in_progress, {},
                                             FormatUnsigned(p.val), FALSE), a)
      [] key = "r" ->
           IF parse_int(arg).err THEN Parsed(1, j, a)
           ELSE Added(journal_add_action(j, ENV_TASK_SET, K_revision, {}, arg, nomem), a)
      [] key = "w" ->
           LET p == parse_int(arg)
           IN  IF p.err \/ p.val < 0 THEN Parsed(1, j, a)
               ELSE Added(journal_add_action(j, ENV_TASK_SET, K_watchdog, {}, arg, nomem), a)
      [] key = "c" ->
           Added(journal_add_action(j, ENV_TASK_SET, K_ustate, {}, <<"0">>, nomem), a)
      [] key = "u" -> Parsed(0, j, [a EXCEPT !.auto_update = TRUE])
      [] key = "x" -> Added(set_uservars(j, arg, nomem), a)
      [] key = "P" -> Parsed(0, j, [a EXCEPT !.preserve_env = TRUE])
      [] OTHER -> parse_common_opt(key, arg, TRUE, j, a, isdir, nomem)

(***************************************************************************)
(* The environment record BG_ENVDATA and the environment library, after    *)
(* the specification.  The checksum is modelled as the checked contents    *)
(* themselves: two records have the same crc32 exactly if all their other  *)
(* fields agree.  CrcZero is the crc32 field of zeroed memory.             *)
(***************************************************************************)
CrcZero == << >>

crc32(d) == <<d.revision, d.ustate, d.in_progress, d.kernelfile, d.kernelparams,
              d.watchdog_timeout_sec, d.userdata>>

\* memset(&data, 0, sizeof(BG_ENVDATA))
ZeroData ==
    [revision |-> 0, ustate |-> 0, in_progress |-> FALSE, kernelfile |-> << >>,
     kernelparams |-> << >>, watchdog_timeout_sec |-> 0, userdata |-> << >>,
     crc32 |-> CrcZero]

\* the record verifies: its stored checksum is the checksum of the rest
CrcValid(d) == d.crc32 = crc32(d)

\* a text in a fixed-width field of ENV_STRING_LENGTH units, terminator included
FixedText(data) ==
    IF Len(data) > ENV_STRING_LENGTH - 1 THEN SubSeq(data, 1, ENV_STRING_LENGTH - 1) ELSE data

\* the user variable area after setting key: overwritten in place, or appended
SetUservar(udata, key, type, value) ==
    IF \E i \in 1..Len(udata) : udata[i].key = key
    THEN [i \in 1..Len(udata) |->
            IF udata[i].key = key THEN [key |-> key, type |-> type, value |-> value]
            ELSE udata[i]]
    ELSE Append(udata, [key |-> key, type |-> type, value |-> value])

\* bgenv_set(env, key, type, data, datalen), on the record of env
bgenv_set(d, key, type, data) ==
    CASE key = K_kernelfile -> [d EXCEPT !.kernelfile = FixedText(data)]
      [] key = K_kernelparams -> [d EXCEPT !.kernelparams = FixedText(data)]
      [] key = K_revision ->
           LET p == parse_int(data)
           IN  IF p.err THEN d ELSE [d EXCEPT !.revision = ToUnsigned(p.val, UINT32_MAX)]
      [] key = K_watchdog ->
           LET p == parse_int(data)
           IN  IF p.err THEN d
               ELSE [d EXCEPT !.watchdog_timeout_sec = ToUnsigned(p.val, UINT32_MAX)]
      [] key = K_in_progress ->
           LET p == parse_int(data)
           IN  IF p.err THEN d ELSE [d EXCEPT !.in_progress = (p.val /= 0)]
      [] key = K_ustate ->
           LET p == parse_int(data)
           IN  IF p.err THEN d ELSE [d EXCEPT !.ustate = ToUnsigned(p.val, UINT16_MAX)]
      [] OTHER -> [d EXCEPT !.userdata = SetUservar(d.userdata, key, type, data)]

\* ebg_env_setglobalstate(&e, ustate) with e.bgenv the open environment: the
\* update state of the environment becomes ustate, or the call fails
ebg_env_setglobalstate(d, ustate, fails) ==
    IF fails THEN [ret |-> -1, data |-> d]
    ELSE [ret |-> 0, data |-> [d EXCEPT !.ustate = ustate]]

Parts == 0..(ENV_NUM_CONFIG_PARTS - 1)

\* the slots a selection considers: those that decode
Readable(slots) == {i \in Parts : CrcValid(slots[i + 1])}

\* the slots bgenv_open_latest may select: the maximal revision
LatestOf(slots) ==
    {i \in Readable(slots) :
        \A k \in Readable(slots) : slots[k + 1].revision <= slots[i + 1].revision}

\* the slots bgenv_open_oldest may select: the minimal revision
OldestOf(slots) ==
    {i \in Readable(slots) :
        \A k \in Readable(slots) : slots[k + 1].revision >= slots[i + 1].revision}

\* the fields of BG_ENVDATA in the order of the layout
Layout == <<"revision", "ustate", "in_progress", "kernelfile", "kernelparams",
            "watchdog_timeout_sec", "userdata", "crc32">>

\* a write interrupted after the first cut fields: those are new, the rest old
TornRecord(old, new, cut) ==
    [f \in DOMAIN old |->
        IF \E i \in 1..cut : Layout[i] = f THEN new[f] ELSE old[f]]

\* bgenv_write(env): what the slot holds after it.  how is "ok", "fail" (nothing
\* written) or "torn" (interrupted after cut fields)
bgenv_write(old, new, how, cut) ==
    CASE how = "ok" -> new
      [] how = "fail" -> old
      [] OTHER -> TornRecord(old, new, cut)

(***************************************************************************)
(* Replay of the journal.                                                  *)
(***************************************************************************)
\* the ustate branch of journal_process_action after strtol has returned r
ProcessUstate(d, r, setter_fails) ==
    IF \/ (r.erange /\ (r.val = LONG_MAX \/ r.val = LONG_MIN))
       \/ (r.erange /\ r.val = 0)
       \/ r.end = 0
    THEN [data |-> d, handed |-> << >>, ret |-> 0]
    ELSE [data |-> ebg_env_setglobalstate(d, ToUnsigned(r.val, UINT16_MAX), setter_fails).data,
          handed |-> <<ToUnsigned(r.val, UINT16_MAX)>>,
          ret |-> ebg_env_setglobalstate(d, ToUnsigned(r.val, UINT16_MAX), setter_fails).ret]

\* as journal_process_action, with ENV_TASK_DEL leaving the record as it is
journal_process_action_KeepOnDelete(d, action, setter_fails) ==
    IF action.task = ENV_TASK_SET
    THEN IF action.key = K_ustate
         THEN ProcessUstate(d, strtol(action.data), setter_fails)
         ELSE [data |-> bgenv_set(d, action.key, action.type, action.data),
               handed |-> << >>, ret |-> 0]
    ELSE [data |-> d, handed |-> << >>, ret |-> 0]

\* journal_process_action(env, action) on the record d of env.  handed is the
\* value given to ebg_env_setglobalstate, if the call was made, and ret what
\* the call returned
journal_process_action(d, action, setter_fails) ==
    IF action.task = ENV_TASK_SET
    THEN IF action.key = K_ustate
         THEN ProcessUstate(d, strtol(action.data), setter_fails)
         ELSE [data |-> bgenv_set(d, action.key, action.type, action.data),
               handed |-> << >>, ret |-> 0]
    ELSE [data |-> bgenv_set(d, action.key, action.type, << >>), handed |-> << >>,
          ret |-> 0]

\* one iteration of the loop of update_environment, r being what
\* journal_process_action has done with the head: the head is removed and freed.
\* trail, handed and rets keep, for every iteration, the record after it, the
\* value given to the state setter and what the setter returned
Processed(st, r) ==
    [data    |-> r.data,
     queue   |-> Tail(st.queue),
     applied |-> Append(st.applied, Head(st.queue)),
     freed   |-> Append(st.freed, Head(st.queue)),
     trail   |-> Append(st.trail, r.data),
     handed  |-> Append(st.handed, r.handed),
     rets    |-> Append(st.rets, r.ret)]

\* the loop of update_environment: take the head, process it, remove it from the
\* queue and free it, until the queue is empty.  fails[n]: the state setter
\* fails in the n-th iteration
RECURSIVE Drain(_, _, _)
Drain(st, fails, n) ==
    IF st.queue = << >> THEN st
    ELSE Drain(Processed(st, journal_process_action(st.data, Head(st.queue), fails[n])),
               fails, n + 1)

\* as SetCrc, the checksum left as it was
SetCrc_Stale(st) == st

\* the end of update_environment: the checksum over the record without crc32
SetCrc(st) == [st EXCEPT !.data = [st.data EXCEPT !.crc32 = crc32(st.data)]]

\* the loop of update_environment before its first iteration
DrainStart(d, head) ==
    [data |-> d, queue |-> head, applied |-> << >>, freed |-> << >>,
     trail |-> << >>, handed |-> << >>, rets |-> << >>]

\* as update_environment, with a conditional in place of the loop
update_environment_Once(d, head, fails) ==
    SetCrc(IF head = << >> THEN DrainStart(d, head)
           ELSE Processed(DrainStart(d, head),
                          journal_process_action(d, Head(head), fails[1])))

\* update_environment(env, verbosity): drains the journal head on the record d of
\* env and sets its crc32
update_environment(d, head, fails) ==
    SetCrc(Drain(DrainStart(d, head), fails, 1))

(***************************************************************************)
(* Calls of the storage collaborators, as they are recorded in the trace   *)
(* of a session: h numbers the handle (0: NULL), idx is the slot (-1:      *)
(* none).  The trace also records where the tool itself reads or writes    *)
(* the record of a handle: dump_env, memcpy, update_environment.           *)
(***************************************************************************)
Ev(op, h, idx) == [op |-> op, h |-> h, idx |-> idx]

\* struct fields: the fields dump_env prints
FieldNames == {"in_progress", "revision", "kernel", "kernelargs", "wdog_timeout",
               "ustate", "user"}

ALL_FIELDS == [f \in FieldNames |-> TRUE]

\* what dump_env(env, output_fields) prints: the fields selected of the record d.
\* The update state is printed as a number and as the text of ustate2str,
\* both of the value converted to uint8_t
dump_env(d, output_fields) ==
    [data   |-> d,
     fields |-> output_fields,
     ustate |-> IF output_fields.ustate
                THEN <<[number |-> ToUnsigned(d.ustate, UINT8_MAX),
                        text   |-> ustate2str(ToUnsigned(d.ustate, UINT8_MAX))]>>
                ELSE << >>]

\* dump_envs: opens, prints and closes every slot in turn, and returns at the
\* first one that cannot be opened.  bad holds the slots whose open fails
\* though they decode
RECURSIVE DumpEnvs(_, _, _)
DumpEnvs(slots, i, bad) ==
    IF i >= ENV_NUM_CONFIG_PARTS THEN << >>
    ELSE IF ~CrcValid(slots[i + 1]) \/ i \in bad THEN <<Ev("bgenv_open_by_index", 0, i)>>
    ELSE <<Ev("bgenv_open_by_index", i + 1, i), Ev("dump_env", i + 1, i),
           Ev("bgenv_close", i + 1, i)>>
         \o DumpEnvs(slots, i + 1, bad)

\* the records dump_envs prints
RECURSIVE DumpEnvsPrinted(_, _, _, _)
DumpEnvsPrinted(slots, i, output_fields, bad) ==
    IF i >= ENV_NUM_CONFIG_PARTS THEN << >>
    ELSE IF ~CrcValid(slots[i + 1]) \/ i \in bad THEN << >>
    ELSE <<dump_env(slots[i + 1], output_fields)>>
         \o DumpEnvsPrinted(slots, i + 1, output_fields, bad)

\* dump_envs(output_fields): the calls it makes and what it prints
dump_envs(slots, output_fields, bad) ==
    [trace |-> DumpEnvs(slots, 0, bad),
     printed |-> DumpEnvsPrinted(slots, 0, output_fields, bad)]

(***************************************************************************)
(* File mode.  A file is << >> when it is missing or shorter than one      *)
(* record, and <<d>> when it holds the record d.                           *)
(***************************************************************************)
\* get_env(configfilepath, &data): the record read, if one could be read
get_env(file, fault) ==
    IF fault = "read" \/ file = << >> THEN [ok |-> FALSE, data |-> ZeroData]
    ELSE [ok |-> TRUE, data |-> file[1]]

\* what a session leaves behind; the fields a path does not reach keep these
\* values
NoOutcome(slots, file, j) ==
    [result |-> 0, slots |-> slots, file |-> file, journal |-> j, trace |-> << >>,
     printed |-> << >>, fault |-> "none", refused |-> << >>,
     replayed |-> FALSE, handed |-> << >>, rets |-> << >>, trail |-> << >>,
     applied |-> << >>, freed |-> << >>,
     current |-> ZeroData, base |-> ZeroData, stored |-> ZeroData,
     latest |-> -1, target |-> -1, wrote |-> "none", success |-> FALSE]

\* what the state keeps of it: slots, file and journal are variables themselves
Observed(r) ==
    [f \in DOMAIN r \ {"slots", "file", "journal"} |-> r[f]]

\* the calls of dumpenv_to_file on the file, when all of them are made
FileCalls(preserve_env) ==
    (IF preserve_env THEN <<Ev("fopen_rb", 0, -1)>> ELSE << >>)
    \o <<Ev("fopen_wb", 0, -1), Ev("fwrite", 0, -1), Ev("fclose", 0, -1)>>

\* dumpenv_to_file from fopen(envfilepath, "wb") on, upd being what
\* update_environment has done
WriteFile(out, upd, base, a, io) ==
    [out EXCEPT
        !.result  = IF io.fault \in {"fopen", "fwrite", "fclose"} THEN 1 ELSE 0,
        !.file    = CASE io.fault = "fopen" -> out.file
                      [] io.fault = "fwrite" -> << >>
                      [] OTHER -> <<upd.data>>,
        !.wrote   = CASE io.fault = "fopen" -> "none"
                      [] io.fault = "fwrite" -> "fail"
                      [] OTHER -> "ok",
        !.success = io.fault \notin {"fopen", "fwrite"},
        !.printed = IF a.verbosity THEN <<dump_env(upd.data, ALL_FIELDS)>> ELSE << >>,
        !.trace   = IF io.fault = "fopen"
                    THEN SubSeq(FileCalls(a.preserve_env), 1, Len(FileCalls(a.preserve_env)) - 2)
                    ELSE FileCalls(a.preserve_env),
        !.journal = upd.queue, !.replayed = TRUE, !.handed = upd.handed,
        !.rets = upd.rets, !.trail = upd.trail, !.applied = upd.applied,
        !.freed = upd.freed, !.base = base, !.stored = upd.data]

\* as DumpenvFrom, the journal always applied to the all-zero record
DumpenvFrom_FromZero(out, read, j, a, io) ==
    IF a.preserve_env /\ ~read.ok
    THEN [out EXCEPT !.result = 1, !.trace = <<Ev("fopen_rb", 0, -1)>>]
    ELSE WriteFile(out, update_environment(ZeroData, j, io.fails), ZeroData, a, io)

\* dumpenv_to_file after get_env (called only to preserve) has returned read
DumpenvFrom(out, read, j, a, io) ==
    IF a.preserve_env /\ ~read.ok
    THEN [out EXCEPT !.result = 1, !.trace = <<Ev("fopen_rb", 0, -1)>>]
    ELSE WriteFile(out, update_environment(IF a.preserve_env THEN read.data ELSE ZeroData,
                                           j, io.fails),
                   IF a.preserve_env THEN read.data ELSE ZeroData, a, io)

\* dumpenv_to_file(envfilepath, verbosity, preserve_env)
dumpenv_to_file(slots, file, j, a, io) ==
    DumpenvFrom([NoOutcome(slots, file, j) EXCEPT !.fault = io.fault],
                get_env(file, io.fault), j, a, io)

(***************************************************************************)
(* bg_setenv after argp_parse has returned 0.  io holds what the           *)
(* collaborators do in this session: fault names the one call that fails   *)
(* (if any), latest and oldest are the slots the selection returns, cut is *)
(* where an interrupted write stops, fails tells the state setter's        *)
(* failures.                                                               *)
(***************************************************************************)
H_current == ENV_NUM_CONFIG_PARTS + 1
H_new == ENV_NUM_CONFIG_PARTS + 2

\* how bgenv_write ends in this session
HowWritten(io) ==
    CASE io.fault = "write_fail" -> "fail"
      [] io.fault = "write_torn" -> "torn"
      [] OTHER -> "ok"

\* as WriteAndCleanup, with the record written to every slot
WriteAndCleanup_EverySlot(out, upd, base, target, a, io, pre) ==
    [out EXCEPT
        !.printed = out.printed \o (IF a.verbosity THEN <<dump_env(upd.data, ALL_FIELDS)>>
                                    ELSE << >>),
        !.result  = IF HowWritten(io) = "ok" THEN 0 ELSE 1,
        !.slots   = [i \in 1..ENV_NUM_CONFIG_PARTS |->
                        bgenv_write(out.slots[i], upd.data, HowWritten(io), io.cut)],
        !.journal = upd.queue, !.replayed = TRUE, !.handed = upd.handed,
        !.rets = upd.rets, !.trail = upd.trail, !.applied = upd.applied,
        !.freed = upd.freed, !.base = base, !.stored = upd.data, !.target = target,
        !.wrote   = HowWritten(io),
        !.success = (HowWritten(io) = "ok"),
        !.trace   = pre \o <<Ev("update_environment", H_new, target)>>
                        \o (IF a.verbosity THEN <<Ev("dump_env", H_new, target)>> ELSE << >>)
                        \o <<Ev("bgenv_write", H_new, target),
                             Ev("bgenv_close", H_new, target),
                             Ev("bgenv_finalize", 0, -1)>>]

\* bg_setenv from bgenv_write to its end, upd being what update_environment has
\* done on env_new, open on slot target
WriteAndCleanup(out, upd, base, target, a, io, pre) ==
    [out EXCEPT
        !.printed = out.printed \o (IF a.verbosity THEN <<dump_env(upd.data, ALL_FIELDS)>>
                                    ELSE << >>),
        !.result  = IF HowWritten(io) = "ok" THEN 0 ELSE 1,
        !.slots   = [out.slots EXCEPT ![target + 1] =
                        bgenv_write(out.slots[target + 1], upd.data, HowWritten(io), io.cut)],
        !.journal = upd.queue, !.replayed = TRUE, !.handed = upd.handed,
        !.rets = upd.rets, !.trail = upd.trail, !.applied = upd.applied,
        !.freed = upd.freed, !.base = base, !.stored = upd.data, !.target = target,
        !.wrote   = HowWritten(io),
        !.success = (HowWritten(io) = "ok"),
        !.trace   = pre \o <<Ev("update_environment", H_new, target)>>
                        \o (IF a.verbosity THEN <<Ev("dump_env", H_new, target)>> ELSE << >>)
                        \o <<Ev("bgenv_write", H_new, target),
                             Ev("bgenv_close", H_new, target),
                             Ev("bgenv_finalize", 0, -1)>>]

\* from update_environment to the end of bg_setenv, with env_new open on slot
\* target with the record base
UpdateAndWrite(out, base, target, j, a, io, pre) ==
    WriteAndCleanup(out, update_environment(base, j, io.fails), base, target, a, io, pre)

\* as CleanupNull, without the call of bgenv_finalize
CleanupNull_NoFinalize(out, pre) ==
    [out EXCEPT !.result = 1, !.trace = pre \o <<Ev("bgenv_close", 0, -1)>>]

\* the cleanup of bg_setenv when env_new is still NULL
CleanupNull(out, pre) ==
    [out EXCEPT !.result = 1,
                !.trace = pre \o <<Ev("bgenv_close", 0, -1), Ev("bgenv_finalize", 0, -1)>>]

\* as CloneForUpdate, without the increment of the revision
CloneForUpdate_SameRevision(cur) == cur

\* memcpy of the latest record into env_new and the increment of the revision
CloneForUpdate(cur) == [cur EXCEPT !.revision = ToUnsigned(cur.revision + 1, UINT32_MAX)]

\* the auto-update branch, pre being the calls made before it
AutoUpdate(out, j, a, io, pre) ==
    IF io.fault = "open1" \/ LatestOf(out.slots) = {}
    THEN CleanupNull(out, pre \o <<Ev("bgenv_open_latest", 0, -1)>>)
    ELSE IF io.fault = "open2"
    THEN CleanupNull([out EXCEPT !.latest = io.latest, !.current = out.slots[io.latest + 1]],
                     pre \o <<Ev("bgenv_open_latest", H_current, io.latest),
                              Ev("bgenv_open_oldest", 0, -1),
                              Ev("bgenv_close", H_current, io.latest)>>)
    ELSE IF io.fault = "nodata"
    THEN [out EXCEPT !.result = 1, !.latest = io.latest, !.target = io.oldest,
                     !.current = out.slots[io.latest + 1],
                     !.trace = pre \o <<Ev("bgenv_open_latest", H_current, io.latest),
                                        Ev("bgenv_open_oldest", H_new, io.oldest),
                                        Ev("bgenv_close", H_current, io.latest),
                                        Ev("bgenv_close", H_new, io.oldest),
                                        Ev("bgenv_finalize", 0, -1)>>]
    ELSE UpdateAndWrite([out EXCEPT !.latest = io.latest,
                                    !.current = out.slots[io.latest + 1]],
                        CloneForUpdate(out.slots[io.latest + 1]), io.oldest, j, a, io,
                        pre \o <<Ev("bgenv_open_latest", H_current, io.latest),
                                 Ev("bgenv_open_oldest", H_new, io.oldest),
                                 Ev("memcpy", H_new, io.oldest),
                                 Ev("memcpy", H_current, io.latest),
                                 Ev("bgenv_close", H_current, io.latest)>>)

\* the branch without auto-update: the slot of -p, or the latest
ManualUpdate(out, j, a, io, pre) ==
    IF a.part_specified
    THEN IF io.fault = "open1" \/ ~CrcValid(out.slots[a.which_part + 1])
         THEN CleanupNull(out, pre \o <<Ev("bgenv_open_by_index", 0, a.which_part)>>)
         ELSE UpdateAndWrite(out, out.slots[a.which_part + 1], a.which_part, j, a, io,
                             pre \o <<Ev("bgenv_open_by_index", H_new, a.which_part)>>)
    ELSE IF io.fault = "open1" \/ LatestOf(out.slots) = {}
         THEN CleanupNull(out, pre \o <<Ev("bgenv_open_latest", 0, -1)>>)
         ELSE UpdateAndWrite([out EXCEPT !.latest = io.latest], out.slots[io.latest + 1],
                             io.latest, j, a, io,
                             pre \o <<Ev("bgenv_open_latest", H_new, io.latest)>>)

\* the calls up to the selection of the target
InitCalls(slots, a) ==
    <<Ev("bgenv_init", 0, -1)>>
    \o (IF a.verbosity THEN dump_envs(slots, ALL_FIELDS, {}).trace ELSE << >>)

\* what bg_setenv has printed of the slots before the selection of the target
InitPrinted(slots, a) ==
    IF a.verbosity THEN dump_envs(slots, ALL_FIELDS, {}).printed ELSE << >>

\* the session so far, after bgenv_init has succeeded
Started(slots, file, j, a, io) ==
    [NoOutcome(slots, file, j) EXCEPT !.printed = InitPrinted(slots, a),
                                      !.fault = io.fault]

\* as bg_setenv, without the check for -u together with -p
bg_setenv_NoConflictCheck(slots, file, j, a, io) ==
    IF a.envfilepath /= << >> THEN dumpenv_to_file(slots, file, j, a, io)
    ELSE IF io.fault = "init"
    THEN [NoOutcome(slots, file, j) EXCEPT !.result = 1, !.fault = io.fault,
                                           !.trace = <<Ev("bgenv_init", 0, -1)>>]
    ELSE IF a.auto_update
    THEN AutoUpdate(Started(slots, file, j, a, io), j, a, io, InitCalls(slots, a))
    ELSE ManualUpdate(Started(slots, file, j, a, io), j, a, io, InitCalls(slots, a))

bg_setenv(slots, file, j, a, io) ==
    IF a.auto_update /\ a.part_specified
    THEN [NoOutcome(slots, file, j) EXCEPT !.result = 1]
    ELSE IF a.envfilepath /= << >> THEN dumpenv_to_file(slots, file, j, a, io)
    ELSE IF io.fault = "init"
    THEN [NoOutcome(slots, file, j) EXCEPT !.result = 1, !.fault = io.fault,
                                           !.trace = <<Ev("bgenv_init", 0, -1)>>]
    ELSE IF a.auto_update
    THEN AutoUpdate(Started(slots, file, j, a, io), j, a, io, InitCalls(slots, a))
    ELSE ManualUpdate(Started(slots, file, j, a, io), j, a, io, InitCalls(slots, a))

(***************************************************************************)
(* bg_printenv.                                                            *)
(***************************************************************************)
\* strsep(&fields, ","): the tokens between the commas, empty ones included
RECURSIVE SpanNoComma(_)
SpanNoComma(s) == IF s /= << >> /\ Head(s) /= "," THEN 1 + SpanNoComma(Tail(s)) ELSE 0

RECURSIVE strsep(_)
strsep(s) ==
    IF SpanNoComma(s) = Len(s) THEN <<s>>
    ELSE <<SubSeq(s, 1, SpanNoComma(s))>> \o strsep(From(s, SpanNoComma(s) + 2))

\* the names parse_output_fields compares a token with, and their fields
T_kernel == <<"k", "e", "r", "n", "e", "l">>
T_kernelargs == <<"k", "e", "r", "n", "e", "l", "a", "r", "g", "s">>
T_watchdog_timeout == <<"w", "a", "t", "c", "h", "d", "o", "g", "_", "t", "i", "m", "e",
                        "o", "u", "t">>
T_user == <<"u", "s", "e", "r">>

FieldOfToken(token) ==
    CASE token = K_in_progress -> "in_progress"
      [] token = K_revision -> "revision"
      [] token = T_kernel -> "kernel"
      [] token = T_kernelargs -> "kernelargs"
      [] token = T_watchdog_timeout -> "wdog_timeout"
      [] token = K_ustate -> "ustate"
      [] token = T_user -> "user"
      [] OTHER -> "unknown"

\* the loop of parse_output_fields over the tokens
RECURSIVE ParseTokens(_, _)
ParseTokens(tokens, output_fields) ==
    IF tokens = << >> THEN [e |-> 0, output_fields |-> output_fields]
    ELSE IF Head(tokens) = << >> THEN ParseTokens(Tail(tokens), output_fields)
    ELSE IF FieldOfToken(Head(tokens)) = "unknown"
    THEN [e |-> 1, output_fields |-> output_fields]
    ELSE ParseTokens(Tail(tokens),
                     [output_fields EXCEPT ![FieldOfToken(Head(tokens))] = TRUE])

\* parse_output_fields(fields, output_fields)
parse_output_fields(fields) ==
    ParseTokens(strsep(fields), [f \in FieldNames |-> FALSE])

\* struct arguments_printenv as bg_printenv initialises it
PrintArguments ==
    [envfilepath |-> << >>, verbosity |-> FALSE, which_part |-> 0,
     part_specified |-> FALSE, current |-> FALSE, output_fields |-> ALL_FIELDS]

\* as parse_printenv_opt, with -c taken as in bg_setenv
parse_printenv_opt_Confirm(key, arg, j, a, nomem) ==
    CASE key = "c" ->
           Added(journal_add_action(j, ENV_TASK_SET, K_ustate, {}, <<"0">>, nomem), a)
      [] key = "o" ->
           Parsed(parse_output_fields(arg).e, j,
                  [a EXCEPT !.output_fields = parse_output_fields(arg).output_fields])
      [] OTHER -> parse_common_opt(key, arg, FALSE, j, a, FALSE, nomem)

\* parse_printenv_opt(key, arg, state), j being the journal
parse_printenv_opt(key, arg, j, a, nomem) ==
    CASE key = "c" -> Parsed(0, j, [a EXCEPT !.current = TRUE])
      [] key = "o" ->
           Parsed(parse_output_fields(arg).e, j,
                  [a EXCEPT !.output_fields = parse_output_fields(arg).output_fields])
      [] OTHER -> parse_common_opt(key, arg, FALSE, j, a, FALSE, nomem)

\* the number of arguments that make bg_printenv work on a single partition
Counter(a) ==
    (IF a.envfilepath /= << >> THEN 1 ELSE 0) + (IF a.part_specified THEN 1 ELSE 0)
    + (IF a.current THEN 1 ELSE 0)

\* printenv_from_file after get_env has returned read
PrintenvFrom(out, read, output_fields) ==
    IF read.ok
    THEN [out EXCEPT !.result = 0, !.trace = <<Ev("fopen_rb", 0, -1)>>,
                     !.printed = <<dump_env(read.data, output_fields)>>]
    ELSE [out EXCEPT !.result = 1, !.trace = <<Ev("fopen_rb", 0, -1)>>]

printenv_from_file(out, file, output_fields, io) ==
    PrintenvFrom(out, get_env(file, io.fault), output_fields)

\* dump_latest_env(output_fields)
dump_latest_env(slots, output_fields, io) ==
    IF io.fault = "open1" \/ LatestOf(slots) = {}
    THEN [trace |-> <<Ev("bgenv_open_latest", 0, -1)>>, printed |-> << >>]
    ELSE [trace |-> <<Ev("bgenv_open_latest", H_new, io.latest),
                      Ev("dump_env", H_new, io.latest),
                      Ev("bgenv_close", H_new, io.latest)>>,
          printed |-> <<dump_env(slots[io.latest + 1], output_fields)>>]

\* dump_env_by_index(index, output_fields)
dump_env_by_index(slots, index, output_fields, io) ==
    IF io.fault = "open1" \/ ~CrcValid(slots[index + 1])
    THEN [trace |-> <<Ev("bgenv_open_by_index", 0, index)>>, printed |-> << >>]
    ELSE [trace |-> <<Ev("bgenv_open_by_index", H_new, index),
                      Ev("dump_env", H_new, index),
                      Ev("bgenv_close", H_new, index)>>,
          printed |-> <<dump_env(slots[index + 1], output_fields)>>]

\* the slots whose open fails in dump_envs in this session
BadSlots(io) ==
    CASE io.fault = "open1" -> {0}
      [] io.fault = "open2" -> {1}
      [] OTHER -> {}

\* bg_printenv after bgenv_init has succeeded, dumped being what the function
\* chosen has done: bgenv_finalize, and 0 is returned
Dumped(out, dumped) ==
    [out EXCEPT !.result = 0, !.printed = dumped.printed,
                !.trace = <<Ev("bgenv_init", 0, -1)>> \o dumped.trace
                          \o <<Ev("bgenv_finalize", 0, -1)>>]

\* bg_printenv after argp_parse has returned 0
bg_printenv(slots, file, j, a, io) ==
    IF Counter(a) > 1
    THEN [NoOutcome(slots, file, j) EXCEPT !.result = 1]
    ELSE IF a.envfilepath /= << >>
    THEN printenv_from_file([NoOutcome(slots, file, j) EXCEPT !.fault = io.fault],
                            file, a.output_fields, io)
    ELSE IF io.fault = "init"
    THEN [NoOutcome(slots, file, j) EXCEPT !.result = 1, !.fault = io.fault,
                                              !.trace = <<Ev("bgenv_init", 0, -1)>>]
    ELSE IF a.current
    THEN Dumped([NoOutcome(slots, file, j) EXCEPT !.fault = io.fault],
                dump_latest_env(slots, a.output_fields, io))
    ELSE IF a.part_specified
    THEN Dumped([NoOutcome(slots, file, j) EXCEPT !.fault = io.fault],
                dump_env_by_index(slots, a.which_part, a.output_fields, io))
    ELSE Dumped([NoOutcome(slots, file, j) EXCEPT !.fault = io.fault],
                dump_envs(slots, a.output_fields, BadSlots(io)))

\* main: strstr(argv[0], "bg_setenv")
A_bg_setenv == <<"b", "g", "_", "s", "e", "t", "e", "n", "v">>
A_bg_printenv == <<"b", "g", "_", "p", "r", "i", "n", "t", "e", "n", "v">>

strstr(s, sub) ==
    \E i \in 1..(Len(s) - Len(sub) + 1) : SubSeq(s, i, i + Len(sub) - 1) = sub

IsSetenv(argv0) == strstr(argv0, A_bg_setenv)

(***************************************************************************)
(* The state.                                                              *)
(***************************************************************************)
VARIABLES
    pc,         \* "parse": argp is walking the command line; "rejected": it has
                \* returned an error; "exited": the process has exited in it;
                \* "done": bg_setenv has run to its end after it; "printed":
                \* bg_printenv has
    slots,      \* the records of the config partitions, slot i at i + 1
    files,      \* the stand-alone environment files, by path
    head,       \* the journal
    arguments,  \* struct arguments_setenv, or struct arguments_printenv
    argc,       \* options of this command line parsed so far
    nopts,      \* options parsed in all sessions
    added,      \* the actions journal_add_action has queued in this session
    before,     \* slots and files when the session started
    out,        \* what the session did, see NoOutcome
    menu        \* argv[0] and the options the command lines of this behaviour are
                \* made of

vars == <<pc, slots, files, head, arguments, argc, nopts, added, before, out, menu>>

F_env == <<"e">>
F_dir == <<"d">>

\* the paths that stat finds to be directories
Dirs == {F_dir}

FilePaths == {F_env, F_dir \o <<"/">> \o FAT_ENV_FILENAME}

S_vmlinuz5 == <<"v", "m", "l", "i", "n", "u", "z", "-", "5">>
S_foo == <<"f", "o", "o">>

\* The options a command line is made of, each the key and its argument, in the
\* families a behaviour draws its command lines from.
\* the selection of the target and the revision
OptsAuto ==
    {<<"u", << >>>>,
     <<"k", <<"v", "m", "l", "i", "n", "u", "z", "-", "5">>>>,
     <<"s", <<"T", "E", "S", "T", "I", "N", "G">>>>,
     <<"r", <<"2">>>>,
     <<"r", <<"-", "1">>>>,
     <<"p", <<"0">>>>}

\* the update state, by name, by number and as a user variable
OptsUstate ==
    {<<"s", <<"T", "E", "S", "T", "I", "N", "G">>>>,
     <<"s", <<"9", "9">>>>,
     <<"c", << >>>>,
     <<"x", <<"u", "s", "t", "a", "t", "e", "=", "9", "9">>>>,
     <<"u", << >>>>,
     <<"v", << >>>>}

\* numbers that journal_process_action has to parse
OptsNumber ==
    {<<"x", <<"u", "s", "t", "a", "t", "e", "=", "2", "x">>>>,
     <<"x", <<"u", "s", "t", "a", "t", "e", "=", "x">>>>,
     <<"x", <<"u", "s", "t", "a", "t", "e", "=", "3", "0", "0", "0">>>>,
     <<"x", <<"u", "s", "t", "a", "t", "e", "=", "9", "9", "9", "9", "9">>>>,
     <<"x", <<"f", "o", "o", "=", "a">>>>}

\* several actions on one key
OptsJournal ==
    {<<"k", <<"v", "m", "l", "i", "n", "u", "z", "-", "5">>>>,
     <<"k", <<"k", "2">>>>,
     <<"x", <<"f", "o", "o", "=", "a">>>>,
     <<"x", <<"f", "o", "o">>>>,
     <<"x", <<"k", "e", "r", "n", "e", "l", "f", "i", "l", "e">>>>}

\* an environment file in place of the config partitions
OptsFile ==
    {<<"f", <<"e">>>>,
     <<"f", <<"d">>>>,
     <<"P", << >>>>,
     <<"k", <<"k", "2">>>>,
     <<"v", << >>>>}

\* arguments the parser has to refuse, next to ones it accepts
OptsInvalid ==
    {<<"p", <<"2">>>>,
     <<"p", <<"-", "1">>>>,
     <<"p", <<"1">>>>,
     <<"r", <<"2", "x">>>>,
     <<"k", <<"v", "m", "l", "i", "n", "u", "z", "-", "5", ".", "1", "0", "-", "r", "t">>>>,
     <<"k", <<"v", "m", "l", "i", "n", "u", "z", "-", "1", "0">>>>,
     <<"s", <<"B", "O", "G", "U", "S">>>>}

\* the options of bg_printenv
OptsPrint ==
    {<<"c", << >>>>,
     <<"f", <<"e">>>>,
     <<"p", <<"0">>>>,
     <<"p", <<"2">>>>,
     <<"o", <<"u", "s", "t", "a", "t", "e", ",", ",", "u", "s", "e", "r">>>>,
     <<"o", <<"u", "s", "t", "a", "t", "e", ",", "b", "o", "g", "u", "s">>>>}

Menus ==
    {[argv0 |-> A_bg_setenv, opts |-> OptsAuto],
     [argv0 |-> A_bg_setenv, opts |-> OptsUstate],
     [argv0 |-> A_bg_setenv, opts |-> OptsNumber],
     [argv0 |-> A_bg_setenv, opts |-> OptsJournal],
     [argv0 |-> <<".", "/">> \o A_bg_setenv, opts |-> OptsFile],
     [argv0 |-> A_bg_setenv, opts |-> OptsInvalid],
     [argv0 |-> A_bg_printenv, opts |-> OptsPrint]}

\* the arguments a session of the tool called as argv0 starts from
StartArguments(argv0) == IF IsSetenv(argv0) THEN NoArguments ELSE PrintArguments

\* a record with its checksum set
Sealed(d) == [d EXCEPT !.crc32 = crc32(d)]

\* two valid environments of different age that differ in every field
EnvOld ==
    Sealed([revision |-> 2, ustate |-> 3, in_progress |-> FALSE,
            kernelfile |-> <<"k", "1">>, kernelparams |-> <<"q">>,
            watchdog_timeout_sec |-> 3, userdata |-> << >>, crc32 |-> CrcZero])

EnvNew ==
    Sealed([revision |-> 5, ustate |-> 1, in_progress |-> TRUE,
            kernelfile |-> <<"k", "4">>, kernelparams |-> <<"r", "o">>,
            watchdog_timeout_sec |-> 7,
            userdata |-> <<[key |-> S_foo, type |-> USERVAR_STRING, value |-> <<"z">>]>>,
            crc32 |-> CrcZero])

\* a record whose checksum does not match its content
EnvBad == [EnvOld EXCEPT !.kernelfile = <<"k", "9">>]

\* out before the session has done anything
NothingDone == Observed(NoOutcome(<< >>, << >>, << >>))

Init ==
    /\ pc = "parse"
    /\ slots = <<EnvOld, EnvNew>>
    /\ menu \in Menus
    /\ files = [p \in FilePaths |-> IF p = F_env THEN <<EnvBad>> ELSE << >>]
    /\ head = << >>
    /\ arguments = StartArguments(menu.argv0)
    /\ argc = 0
    /\ nopts = 0
    /\ added = << >>
    /\ before = [slots |-> slots, files |-> files]
    /\ out = NothingDone

(***************************************************************************)
(* argp calls the parser for the next option.  A non-zero return ends      *)
(* argp_parse and bg_setenv with it; -V ends the process.                  *)
(***************************************************************************)
ParseOpt ==
    /\ pc = "parse"
    /\ IsSetenv(menu.argv0)
    /\ nopts < MaxOpts
    /\ \E o \in menu.opts, nomem \in BOOLEAN :
       \E r \in {parse_setenv_opt(o[1], o[2], head, arguments, o[2] \in Dirs, nomem)} :
         /\ head' = r.journal
         /\ arguments' = r.arguments
         /\ added' = added \o r.new
         /\ pc' = IF r.exited THEN "exited" ELSE IF r.e /= 0 THEN "rejected" ELSE "parse"
         /\ out' = [out EXCEPT !.result = r.e,
                                !.refused = IF r.e /= 0 THEN <<o>> ELSE << >>]
    /\ argc' = argc + 1
    /\ nopts' = nopts + 1
    /\ UNCHANGED <<slots, files, before, menu>>

\* the same in bg_printenv, whose parser is parse_printenv_opt
ParsePrintOpt ==
    /\ pc = "parse"
    /\ ~IsSetenv(menu.argv0)
    /\ nopts < MaxOpts
    /\ \E o \in menu.opts, nomem \in BOOLEAN :
       \E r \in {parse_printenv_opt(o[1], o[2], head, arguments, nomem)} :
         /\ head' = r.journal
         /\ arguments' = r.arguments
         /\ added' = added \o r.new
         /\ pc' = IF r.exited THEN "exited" ELSE IF r.e /= 0 THEN "rejected" ELSE "parse"
         /\ out' = [out EXCEPT !.result = r.e,
                                !.refused = IF r.e /= 0 THEN <<o>> ELSE << >>]
    /\ argc' = argc + 1
    /\ nopts' = nopts + 1
    /\ UNCHANGED <<slots, files, before, menu>>

\* bg_setenv called without any option: argc < 2
NoTask ==
    /\ pc = "parse"
    /\ IsSetenv(menu.argv0)
    /\ argc = 0
    /\ pc' = "rejected"
    /\ out' = [out EXCEPT !.result = 1]
    /\ UNCHANGED <<slots, files, head, arguments, argc, nopts, added, before, menu>>

\* the calls that can fail in the session the arguments select
Faults(a) ==
    IF a.auto_update /\ a.part_specified THEN {"none"}
    ELSE IF a.envfilepath /= << >>
    THEN {"none", "fopen", "fwrite", "fclose"} \cup (IF a.preserve_env THEN {"read"} ELSE {})
    ELSE {"none", "init", "open1", "write_fail", "write_torn"}
         \cup (IF a.auto_update THEN {"open2", "nodata"} ELSE {})

\* where a write can be interrupted: after the first field, before the last
TornCuts == {1, Len(Layout) - 1}

\* the state setter can fail where it is called, at the actions on "ustate":
\* in a session it fails at none of them or at one
SetterFailures(j) ==
    {[n \in 1..Len(j) |-> n = k] : k \in {0} \cup {n \in 1..Len(j) : j[n].key = K_ustate}}

\* the path of the file the session works on
PathOf(a) == IF a.envfilepath = << >> THEN F_env ELSE a.envfilepath[1]

\* the slots a selection may return, or slot 0 where it returns none
Selectable(S) == IF S = {} THEN {0} ELSE S

(***************************************************************************)
(* argp_parse has returned 0: the rest of bg_setenv.                       *)
(***************************************************************************)
RunSetenv ==
    /\ pc = "parse"
    /\ IsSetenv(menu.argv0)
    /\ argc >= 1
    /\ \E fault \in Faults(arguments), fails \in SetterFailures(head) :
       \E cut \in (IF fault = "write_torn" THEN TornCuts ELSE {1}),
          latest \in Selectable(LatestOf(slots)),
          oldest \in Selectable(OldestOf(slots)) :
       \E r \in {bg_setenv(slots, files[PathOf(arguments)], head, arguments,
                           [fault |-> fault, fails |-> fails, cut |-> cut,
                            latest |-> latest, oldest |-> oldest])} :
         /\ out' = Observed(r)
         /\ slots' = r.slots
         /\ files' = [files EXCEPT ![PathOf(arguments)] = r.file]
         /\ head' = r.journal
    /\ pc' = "done"
    /\ UNCHANGED <<arguments, argc, nopts, added, before, menu>>

\* the calls that can fail in the session of bg_printenv the arguments select
PrintFaults(a) ==
    IF Counter(a) > 1 THEN {"none"}
    ELSE IF a.envfilepath /= << >> THEN {"none", "read"}
    ELSE {"none", "init", "open1"}
         \cup (IF a.current \/ a.part_specified THEN {} ELSE {"open2"})

(***************************************************************************)
(* argp_parse has returned 0: the rest of bg_printenv.                     *)
(***************************************************************************)
RunPrintenv ==
    /\ pc = "parse"
    /\ ~IsSetenv(menu.argv0)
    /\ \E fault \in PrintFaults(arguments), latest \in Selectable(LatestOf(slots)) :
       \E r \in {bg_printenv(slots, files[PathOf(arguments)], head, arguments,
                             [fault |-> fault, latest |-> latest])} :
         /\ out' = Observed(r)
         /\ slots' = r.slots
         /\ files' = [files EXCEPT ![PathOf(arguments)] = r.file]
         /\ head' = r.journal
    /\ pc' = "printed"
    /\ UNCHANGED <<arguments, argc, nopts, added, before, menu>>

\* the tool is started again
NewSession ==
    /\ pc \in {"done", "printed", "rejected", "exited"}
    /\ nopts < MaxOpts
    /\ pc' = "parse"
    /\ head' = << >>
    /\ arguments' = StartArguments(menu.argv0)
    /\ argc' = 0
    /\ added' = << >>
    /\ before' = [slots |-> slots, files |-> files]
    /\ out' = NothingDone
    /\ UNCHANGED <<slots, files, nopts, menu>>

Next == ParseOpt \/ ParsePrintOpt \/ NoTask \/ RunSetenv \/ RunPrintenv \/ NewSession

Spec == Init /\ [][Next]_vars

(***************************************************************************)
(* Properties.                                                             *)
(***************************************************************************)
\* the slot the session has written to and the slot it selected as latest
Target == out.target + 1
Latest == out.latest + 1

\* bg_setenv has run an auto-update to its end and bgenv_write has succeeded
AutoUpdated == pc = "done" /\ arguments.auto_update /\ out.wrote = "ok"

\* the field of BG_ENVDATA an action on key works on
FieldOf(key) ==
    CASE key = K_kernelfile -> "kernelfile"
      [] key = K_kernelparams -> "kernelparams"
      [] key = K_revision -> "revision"
      [] key = K_in_progress -> "in_progress"
      [] key = K_watchdog -> "watchdog_timeout_sec"
      [] key = K_ustate -> "ustate"
      [] OTHER -> "userdata"

\* an action of this session's journal works on field f
Touched(f) == \E n \in 1..Len(added) : FieldOf(added[n].key) = f

\* the calls of bgenv_write in the session
WriteCalls == {k \in 1..Len(out.trace) : out.trace[k].op = "bgenv_write"}

C2_Claim ==
    AutoUpdated =>
        /\ slots[Target].revision = (before.slots[Latest].revision + 1) % (UINT32_MAX + 1)
        /\ \A f \in DOMAIN ZeroData \ {"revision", "crc32"} :
               ~Touched(f) => slots[Target][f] = before.slots[Latest][f]

\* C3: the revision an auto-update writes is greater than the revision every
\* slot held before it, whatever the journal holds: it is never lower than and
\* never equal to one of them
C3_Claim ==
    AutoUpdated =>
        \A i \in Readable(before.slots) :
            slots[Target].revision > before.slots[i + 1].revision

\* C4: an auto-update writes to a slot of minimal revision and not to the one
\* selected as latest when the two differ; after a successful one the written
\* slot is the latest, and the previous latest record is still in its slot
C4_Claim ==
    (pc = "done" /\ arguments.auto_update /\ out.wrote /= "none") =>
        /\ out.target \in OldestOf(before.slots)
        /\ out.wrote = "ok" => LatestOf(slots) = {out.target}
        /\ out.target /= out.latest => slots[Latest] = before.slots[Latest]

\* the scenario of C5: slots with revisions 2 and 5, and a session that asks
\* for an auto-update, kernel "vmlinuz-5" and ustate TESTING, in which no call
\* fails
C5_Scenario ==
    /\ pc = "done" /\ arguments.auto_update /\ out.wrote = "ok"
    /\ {before.slots[i + 1].revision : i \in Parts} = {2, 5}
    /\ \A i \in Parts : CrcValid(before.slots[i + 1])
    /\ \/ added = <<NewAction(ENV_TASK_SET, K_kernelfile, {}, S_vmlinuz5),
                   NewAction(ENV_TASK_SET, K_ustate, {}, <<"2">>)>>
       \/ added = <<NewAction(ENV_TASK_SET, K_ustate, {}, <<"2">>),
                   NewAction(ENV_TASK_SET, K_kernelfile, {}, S_vmlinuz5)>>
    /\ out.rets = <<0, 0>>

\* the scenario of C5 with revision rev written
C5_Outcome(rev) ==
    /\ out.result = 0
    /\ before.slots[Target].revision = 2
    /\ slots[Target].revision = rev
    /\ slots[Target].kernelfile = S_vmlinuz5
    /\ ustatemap[slots[Target].ustate + 1] = <<"T", "E", "S", "T", "I", "N", "G">>
    /\ slots[Target].crc32 = crc32(slots[Target])
    /\ \A i \in Parts : before.slots[i + 1].revision = 5 =>
                            slots[i + 1] = before.slots[i + 1]

Replayed == pc = "done" /\ out.replayed

\* the record the n-th iteration of the replay started from
RecordBefore(n) == IF n = 1 THEN out.base ELSE out.trail[n - 1]

\* a decimal integer: an optional sign and digits, and nothing else
AllDigits(s) == s /= << >> /\ \A i \in 1..Len(s) : IsDigit(s[i])

IsDecimalInteger(s) ==
    \/ AllDigits(s)
    \/ (s /= << >> /\ s[1] \in {"-", "+"} /\ AllDigits(Tail(s)))

\* the value of a decimal integer (saturating beyond the range of long)
DecimalOf(s) ==
    IF s[1] = "-" THEN -DigitsValue(Tail(s), 0)
    ELSE IF s[1] = "+" THEN DigitsValue(Tail(s), 0)
    ELSE DigitsValue(s, 0)

\* no action after the n-th of this session's journal has its key
LastOnKey(n) == \A m \in (n + 1)..Len(added) : added[m].key /= added[n].key

\* the record d holds under the key of the Set action a the data of a: the text
\* that fits the field, the number the text denotes, or the user variable
HoldsDataOf(d, a, ret) ==
    CASE a.key = K_kernelfile ->
             Len(a.data) < ENV_STRING_LENGTH => d.kernelfile = a.data
      [] a.key = K_kernelparams ->
             Len(a.data) < ENV_STRING_LENGTH => d.kernelparams = a.data
      [] a.key = K_revision ->
             (IsDecimalInteger(a.data) /\ DecimalOf(a.data) \in INT_MIN..INT_MAX)
                 => d.revision = DecimalOf(a.data) % (UINT32_MAX + 1)
      [] a.key = K_watchdog ->
             (IsDecimalInteger(a.data) /\ DecimalOf(a.data) \in 0..INT_MAX)
                 => d.watchdog_timeout_sec = DecimalOf(a.data)
      [] a.key = K_in_progress ->
             (IsDecimalInteger(a.data) /\ DecimalOf(a.data) \in 0..1)
                 => d.in_progress = (DecimalOf(a.data) = 1)
      [] a.key = K_ustate ->
             (IsDecimalInteger(a.data) /\ DecimalOf(a.data) \in 0..UINT16_MAX /\ ret = 0)
                 => d.ustate = DecimalOf(a.data)
      [] OTHER ->
             /\ \E i \in 1..Len(d.userdata) :
                    d.userdata[i].key = a.key /\ d.userdata[i].value = a.data
             /\ Cardinality({i \in 1..Len(d.userdata) : d.userdata[i].key = a.key}) = 1

\* C6: journal_add_action appends at the tail, update_environment applies the
\* actions in the order they were added, and after the drain the record holds,
\* for every key whose last action is a Set, the data of that Set: of two Sets
\* on one key the one added last wins
C6_LastSetWins ==
    /\ pc = "parse" => head = added
    /\ Replayed =>
         /\ out.applied = added
         /\ \A n \in 1..Len(added) :
                (added[n].task = ENV_TASK_SET /\ LastOnKey(n))
                    => HoldsDataOf(out.stored, added[n], out.rets[n])

\* a replay of two Sets on one key with different data
C6_Witness ==
    /\ Replayed /\ out.wrote = "ok"
    /\ \E m, n \in 1..Len(added) :
          /\ m < n /\ LastOnKey(n)
          /\ added[m].key = added[n].key /\ added[m].data /= added[n].data
          /\ added[m].task = ENV_TASK_SET /\ added[n].task = ENV_TASK_SET
          /\ added[n].key = K_kernelfile
          /\ out.stored.kernelfile = added[n].data
          /\ slots[Target].kernelfile = added[n].data

\* C7: when bg_setenv returns 0 it has replayed the journal, and a replay
\* applies every action that was added exactly once, in order, frees each of
\* them, and leaves the journal empty
C7_JournalDrained ==
    /\ (pc = "done" /\ out.result = 0) => out.replayed
    /\ Replayed => (out.applied = added /\ out.freed = added /\ head = << >>)

\* a successful session with several actions in the journal
C7_Witness ==
    /\ Replayed /\ out.result = 0 /\ Len(added) >= 2
    /\ out.applied = added /\ head = << >>

\* C8: every value the replay hands to ebg_env_setglobalstate is in 0..3
C8_Claim ==
    \A n \in 1..Len(out.handed) :
        \A k \in 1..Len(out.handed[n]) : out.handed[n][k] \in 0..3

\* C9: a Set on "ustate" whose data is not a decimal integer changes neither
\* the record nor the update state (the setter is not called); the replay
\* goes on with the later actions and sets the CRC
C9_Claim ==
    Replayed =>
        /\ \A n \in 1..Len(out.applied) :
               (/\ out.applied[n].task = ENV_TASK_SET
                /\ out.applied[n].key = K_ustate
                /\ ~IsDecimalInteger(out.applied[n].data))
                   => (out.trail[n] = RecordBefore(n) /\ out.handed[n] = << >>)
        /\ out.applied = added
        /\ CrcValid(out.stored)

\* what numeric parsing of a payload has to reject: no decimal integer (empty,
\* or with other characters), or one outside the range of int
Rejectable(s) ==
    ~IsDecimalInteger(s) \/ DecimalOf(s) < INT_MIN \/ DecimalOf(s) > INT_MAX

\* C10: for a Set on "ustate" with such a payload no value is handed to the
\* state setter; parse_int reports an error for every such payload; and the
\* replay is not aborted
C10_Claim ==
    /\ \A n \in 1..Len(added) :
           Rejectable(added[n].data) =>
               (parse_int(added[n].data).val = -1 /\ parse_int(added[n].data).err)
    /\ Replayed =>
         /\ out.applied = added
         /\ \A n \in 1..Len(out.applied) :
                (/\ out.applied[n].task = ENV_TASK_SET
                 /\ out.applied[n].key = K_ustate
                 /\ Rejectable(out.applied[n].data))
                    => out.handed[n] = << >>

\* the record the replay of the session ended with
LastReplayed == IF out.trail = << >> THEN out.base ELSE out.trail[Len(out.trail)]

\* the session has handed a record to bgenv_write or fwrite
WriteAttempted == pc = "done" /\ out.wrote /= "none"

\* C11: the record a session hands to bgenv_write or to fwrite carries the
\* checksum of its own content; it is the record the last action of the journal
\* left, with nothing but crc32 changed since; and where the write succeeds, the
\* slot or the file holds this record with this checksum
C11_CrcAtWrite ==
    WriteAttempted =>
        /\ out.stored.crc32 = crc32(out.stored)
        /\ out.stored = [LastReplayed EXCEPT !.crc32 = crc32(LastReplayed)]
        /\ out.wrote = "ok" =>
             IF arguments.envfilepath /= << >>
             THEN files[PathOf(arguments)] = <<out.stored>>
             ELSE slots[Target] = out.stored /\ CrcValid(slots[Target])

\* a session with a journal has written a slot whose checksum before it was
\* another one
C11_Witness ==
    /\ WriteAttempted
    /\ out.wrote = "ok"
    /\ out.trail /= << >>
    /\ arguments.envfilepath = << >>
    /\ slots[Target] = out.stored
    /\ out.stored.crc32 = crc32(out.stored)
    /\ out.stored.crc32 /= out.base.crc32

\* the session has read the record of an environment file: bg_setenv to preserve
\* it, bg_printenv to print it
FileRead ==
    /\ arguments.envfilepath /= << >>
    /\ \/ (pc = "done" /\ arguments.preserve_env /\ out.replayed)
       \/ (pc = "printed" /\ out.printed /= << >>)

\* the record it has read
RecordRead == before.files[PathOf(arguments)][1]

\* C12: the checksum is verified at every read: a record whose checksum does not
\* match is neither the baseline of an update nor printed, and is never written
\* back with a fresh checksum over its content
C12_Claim ==
    /\ FileRead => CrcValid(RecordRead)
    /\ \A k \in 1..Len(out.printed) : CrcValid(out.printed[k].data)

\* bg_setenv has preserved a file whose checksum does not match and has written
\* its content back with a matching one
C12_Rewritten ==
    /\ pc = "done"
    /\ arguments.preserve_env
    /\ ~CrcValid(RecordRead)
    /\ out.base = RecordRead
    /\ out.wrote = "ok"
    /\ CrcValid(files[PathOf(arguments)][1])
    /\ files[PathOf(arguments)][1].kernelparams = RecordRead.kernelparams

\* a text in lower case
LowerCase(s) == [i \in 1..Len(s) |-> ToLower(s[i])]

\* the names of the update states a user can give
UstateNames == {LowerCase(ustatemap[i + 1]) : i \in 0..3}

\* an option whose argument is not valid: a partition that is no number in
\* 0 .. ENV_NUM_CONFIG_PARTS - 1, a revision that is no integer, a kernel or
\* arguments text longer than ENV_STRING_LENGTH, an update state that is neither
\* a number in 0..3 nor a name, an output field that is not known
InvalidOption(o) ==
    \/ o[1] = "p" /\ (Rejectable(o[2]) \/ DecimalOf(o[2]) \notin Parts)
    \/ o[1] = "r" /\ Rejectable(o[2])
    \/ o[1] \in {"k", "a"} /\ Len(o[2]) > ENV_STRING_LENGTH
    \/ o[1] = "s" /\ IF Rejectable(o[2]) THEN LowerCase(o[2]) \notin UstateNames
                     ELSE DecimalOf(o[2]) \notin 0..3
    \/ o[1] = "o" /\ \E n \in 1..Len(strsep(o[2])) :
                        /\ strsep(o[2])[n] /= << >>
                        /\ FieldOfToken(strsep(o[2])[n]) = "unknown"

\* what the parser of the tool returns for option o in this state
ParserReturns(o) ==
    IF IsSetenv(menu.argv0)
    THEN parse_setenv_opt(o[1], o[2], head, arguments, o[2] \in Dirs, FALSE).e
    ELSE parse_printenv_opt(o[1], o[2], head, arguments, FALSE).e

\* the session has ended with a usage error: the parser has refused an option,
\* there was no option at all, or the flags given exclude each other
FlagConflict ==
    \/ (pc = "done" /\ arguments.auto_update /\ arguments.part_specified)
    \/ (pc = "printed" /\ Counter(arguments) > 1)

UsageError == pc = "rejected" \/ FlagConflict

\* C13: a usage error has no side effect: the session returns non-zero without
\* a call to bgenv_init, without opening a slot and without a write, and slots
\* and files are as before; and the parser refuses every option that is not valid
C13_NoSideEffects ==
    /\ UsageError =>
         /\ out.result /= 0
         /\ out.trace = << >>
         /\ out.wrote = "none" /\ ~out.success /\ ~out.replayed
         /\ slots = before.slots /\ files = before.files
    /\ pc = "parse" => \A o \in menu.opts : InvalidOption(o) => ParserReturns(o) /= 0
    /\ (pc = "rejected" /\ out.refused /= << >>) => out.result /= 0

\* -u and -p together after an option that has queued an action
C13_Witness ==
    /\ pc = "done"
    /\ arguments.auto_update /\ arguments.part_specified
    /\ added /= << >>
    /\ out.result = 1
    /\ out.trace = << >>
    /\ slots = before.slots

\* the parser has refused an option that is not valid, after others
C13_Refused ==
    /\ pc = "rejected"
    /\ argc >= 2
    /\ out.refused /= << >>
    /\ InvalidOption(out.refused[1])
    /\ out.result /= 0

\* the calls of bgenv_open_by_index in the session
OpenByIndexCalls == {k \in 1..Len(out.trace) : out.trace[k].op = "bgenv_open_by_index"}

\* the argument of -p names a partition
NamesPartition(arg) == ~Rejectable(arg) /\ DecimalOf(arg) \in Parts

\* C14: -p is accepted for the numbers 0 .. ENV_NUM_CONFIG_PARTS - 1 and for
\* nothing else; part_specified is set only with which_part in this range; and
\* bgenv_open_by_index is called with an index in this range only
C14_PartInRange ==
    /\ arguments.part_specified => arguments.which_part \in Parts
    /\ \A k \in OpenByIndexCalls : out.trace[k].idx \in Parts
    /\ pc = "parse" =>
         \A o \in menu.opts : o[1] = "p" => (ParserReturns(o) = 0 <=> NamesPartition(o[2]))
    /\ (pc = "rejected" /\ out.refused /= << >> /\ out.refused[1][1] = "p")
           => ~NamesPartition(out.refused[1][2])

\* a session with -p has opened the partition named, after -p with a number
\* out of range was refused in an earlier session
C14_Witness ==
    /\ pc \in {"done", "printed"}
    /\ arguments.part_specified
    /\ \E k \in OpenByIndexCalls :
          out.trace[k].idx = arguments.which_part /\ out.trace[k].h /= 0
    /\ \E o \in menu.opts : o[1] = "p" /\ ~NamesPartition(o[2])

\* a slot could not be opened or selected in the session
OpenFailed ==
    \E k \in 1..Len(out.trace) :
        /\ out.trace[k].op \in {"bgenv_open_by_index", "bgenv_open_latest",
                                "bgenv_open_oldest"}
        /\ out.trace[k].h = 0

\* the state setter has returned an error during the replay
SetterFailed == \E n \in 1..Len(out.rets) : out.rets[n] /= 0

\* the file could not be read, opened for writing, written or closed
FileFailed ==
    /\ arguments.envfilepath /= << >>
    /\ \/ out.fault \in {"fopen", "fwrite", "fclose"}
       \/ \E k \in 1..Len(out.trace) : out.trace[k].op = "fopen_rb" /\ out.fault = "read"

\* C15: a session in which a slot could not be opened or selected, the state
\* setter returned an error, or the file could not be read, written or closed,
\* returns non-zero
C15_Claim ==
    (pc \in {"done", "printed"} /\ (OpenFailed \/ SetterFailed \/ FileFailed))
        => out.result /= 0

\* bg_setenv has returned 0 although the state setter had returned an error
C15_SetterIgnored == pc = "done" /\ SetterFailed /\ out.result = 0 /\ out.success

\* bg_printenv has returned 0 although it could not open the slot to print
C15_PrintIgnored == pc = "printed" /\ OpenFailed /\ out.printed = << >> /\ out.result = 0

\* bgenv_write has failed, or one of fopen, fwrite and fclose on the file
PersistenceFailed ==
    /\ pc = "done"
    /\ \/ out.wrote \notin {"none", "ok"}
       \/ (arguments.envfilepath /= << >> /\ out.replayed
           /\ out.fault \in {"fopen", "fwrite", "fclose"})

\* C16: a session whose write has failed returns non-zero and does not print
\* the confirmation of success
C16_Claim == PersistenceFailed => (out.result /= 0 /\ ~out.success)

\* fclose has failed after "Output written to" was printed
C16_ConfirmedThenFailed ==
    /\ pc = "done"
    /\ out.fault = "fclose"
    /\ out.result = 1
    /\ out.success

\* a key whose value is a text: the kernel, its arguments, a user variable
TextKey(key) == FieldOf(key) \in {"kernelfile", "kernelparams", "userdata"}

\* the record d has the key, with the empty text as its value
EmptyUnder(d, key) ==
    CASE key = K_kernelfile -> d.kernelfile = << >>
      [] key = K_kernelparams -> d.kernelparams = << >>
      [] OTHER -> /\ \E i \in 1..Len(d.userdata) : d.userdata[i].key = key
                  /\ \A i \in 1..Len(d.userdata) :
                         d.userdata[i].key = key => d.userdata[i].value = << >>

\* no action after the n-th of the replay has its key
LastApplied(n) == \A m \in (n + 1)..Len(out.applied) : out.applied[m].key /= out.applied[n].key

\* C17: a Delete on a key with a text value leaves the key in the record, with
\* the empty text as its value, and removes no user variable; where it is the
\* last action on the key the record written has the key with the empty text;
\* and a Set after a Delete leaves the value of the Set
C17_DeleteEmpties ==
    Replayed =>
        \A n \in 1..Len(out.applied) :
            /\ (out.applied[n].task = ENV_TASK_DEL /\ TextKey(out.applied[n].key)) =>
                   /\ EmptyUnder(out.trail[n], out.applied[n].key)
                   /\ Len(out.trail[n].userdata) >= Len(RecordBefore(n).userdata)
                   /\ LastApplied(n) => EmptyUnder(out.stored, out.applied[n].key)
            /\ (/\ out.applied[n].task = ENV_TASK_SET
                /\ LastApplied(n)
                /\ \E m \in 1..(n - 1) : /\ out.applied[m].task = ENV_TASK_DEL
                                         /\ out.applied[m].key = out.applied[n].key)
                   => HoldsDataOf(out.stored, out.applied[n], out.rets[n])

\* [Set(k, "a"), Delete(k)] on a user variable has been replayed and written
C17_Witness ==
    /\ Replayed /\ out.wrote = "ok" /\ arguments.envfilepath = << >>
    /\ \E m, n \in 1..Len(out.applied) :
          /\ m < n /\ LastApplied(n)
          /\ out.applied[m].key = out.applied[n].key
          /\ out.applied[m].task = ENV_TASK_SET /\ out.applied[m].data /= << >>
          /\ out.applied[n].task = ENV_TASK_DEL
          /\ FieldOf(out.applied[n].key) = "userdata"
          /\ EmptyUnder(slots[Target], out.applied[n].key)

\* [Delete(k), Set(k, "a")] has been replayed and written
C17_DeleteThenSet ==
    /\ Replayed /\ out.wrote = "ok" /\ arguments.envfilepath = << >>
    /\ \E m, n \in 1..Len(out.applied) :
          /\ m < n /\ LastApplied(n)
          /\ out.applied[m].key = out.applied[n].key
          /\ out.applied[m].task = ENV_TASK_DEL
          /\ out.applied[n].task = ENV_TASK_SET /\ out.applied[n].data /= << >>
          /\ ~EmptyUnder(slots[Target], out.applied[n].key)

\* the slots that decode and hold the smallest revision above zero
SmallestAboveZero(sl) ==
    {i \in Readable(sl) :
        /\ sl[i + 1].revision > 0
        /\ \A k \in Readable(sl) :
               sl[k + 1].revision > 0 => sl[i + 1].revision <= sl[k + 1].revision}

\* bg_setenv has updated a slot of the store, and -p was not given
UpdatedWithoutPart ==
    /\ pc = "done"
    /\ arguments.envfilepath = << >>
    /\ ~arguments.part_specified
    /\ out.wrote /= "none"

\* C18: without -p, the slot bg_setenv updates is the one with the smallest
\* revision above zero
C18_Claim == UpdatedWithoutPart => out.target \in SmallestAboveZero(before.slots)

\* without -p and without -u the slot with the largest revision has been updated
C18_LatestUpdated ==
    /\ UpdatedWithoutPart
    /\ ~arguments.auto_update
    /\ out.wrote = "ok"
    /\ before.slots[Target].revision > 0
    /\ \E i \in Parts : /\ CrcValid(before.slots[i + 1])
                        /\ before.slots[i + 1].revision > 0
                        /\ before.slots[i + 1].revision < before.slots[Target].revision

\* the action -c queues; no other option of the families queues it
ConfirmAction(a) == a.task = ENV_TASK_SET /\ a.key = K_ustate /\ a.data = <<"0">>

\* the command line of the session contains -c
Confirmed == \E n \in 1..Len(added) : ConfirmAction(added[n])

\* the iterations of the replay that have called the state setter
HandedAt == {n \in 1..Len(out.handed) : out.handed[n] /= << >>}

\* C19: after a successful session of bg_setenv with -c the last value handed
\* to the state setter is 0
C19_Claim ==
    (pc = "done" /\ out.result = 0 /\ Confirmed) =>
        /\ HandedAt /= {}
        /\ \A n \in HandedAt : (\A m \in HandedAt : m <= n) => out.handed[n] = <<0>>

\* -c followed by another action on the update state: the last value handed is
\* not 0, and the record written does not have the state 0
C19_Overridden ==
    /\ pc = "done" /\ out.result = 0 /\ out.wrote = "ok"
    /\ Len(added) = 2
    /\ ConfirmAction(added[1])
    /\ out.handed[1] = <<0>>
    /\ out.handed[2] /= << >> /\ out.handed[2] /= <<0>>
    /\ out.stored.ustate /= 0

\* the texts of the valid states, 0..3, and of the sentinel
StateTexts == << <<"O", "K">>,
                 <<"I", "N", "S", "T", "A", "L", "L", "E", "D">>,
                 <<"T", "E", "S", "T", "I", "N", "G">>,
                 <<"F", "A", "I", "L", "E", "D">> >>

UnknownText == <<"U", "N", "K", "N", "O", "W", "N">>

\* a text with every second letter in lower case, from the first or the second on
Alternating(s, first) ==
    [i \in 1..Len(s) |-> IF i % 2 = first THEN ToLower(s[i]) ELSE s[i]]

\* a text in several letter cases
CaseVariants(s) == {s, LowerCase(s), Alternating(s, 0), Alternating(s, 1)}

\* ustate2str gives for the 8-bit value u a text of ustatemap
InBounds(u) == \E i \in 1..Len(ustatemap) : ustate2str(u) = ustatemap[i]

\* the valid states have their texts, and str2ustate of the text, in any of
\* the letter cases, gives the number back
RoundTrip(u) ==
    /\ ustate2str(u) = StateTexts[u + 1]
    /\ \A t \in CaseVariants(StateTexts[u + 1]) : str2ustate(t) = u

\* what dump_env has printed for the update state in this session
PrintedUstates == {out.printed[k].ustate[1] :
                       k \in {n \in 1..Len(out.printed) : out.printed[n].ustate /= << >>}}

\* C20 as amended: ustate2str stays within ustatemap for every 8-bit value; for
\* every value above 3 it returns UNKNOWN, the text of the sentinel; for 0..3 it
\* returns OK, INSTALLED, TESTING, FAILED, and str2ustate of these gives the
\* number back in any letter case; and this is the text dump_env prints.  The
\* functions do not depend on the state: they are evaluated over all values
\* where no option has been parsed yet, and in every state on what was printed
C20_UstateText ==
    /\ nopts = 0 =>
         \A u \in 0..UINT8_MAX :
           /\ InBounds(u)
           /\ u > 3 => ustate2str(u) = UnknownText
           /\ u <= 3 => RoundTrip(u)
    /\ \A e \in PrintedUstates :
           /\ e.number \in 0..UINT8_MAX
           /\ e.text = IF e.number > 3 THEN UnknownText ELSE StateTexts[e.number + 1]

\* C20 as claimed: for every value above 3 the text is the one of FAILED
C20_Claim ==
    /\ nopts = 0 =>
         \A u \in 0..UINT8_MAX :
           /\ InBounds(u)
           /\ u > 3 => ustate2str(u) = ustate2str(3)
           /\ u <= 3 => RoundTrip(u)
    /\ \A e \in PrintedUstates :
           e.text = IF e.number > 3 THEN StateTexts[4] ELSE StateTexts[e.number + 1]

\* a verbose session has printed a record with an update state above 3
C20_Witness ==
    /\ pc = "done"
    /\ arguments.verbosity
    /\ \E e \in PrintedUstates : e.number > 3 /\ e.text = UnknownText
    /\ \E e \in PrintedUstates : e.number <= 3 /\ e.text = StateTexts[e.number + 1]

\* bg_setenv has run in file mode
FileMode ==
    /\ pc = "done"
    /\ arguments.envfilepath /= << >>
    /\ ~(arguments.auto_update /\ arguments.part_specified)

\* what the file of the session held when it started
FileBefore == before.files[PathOf(arguments)]

\* the file could not be read: there is none, or the read has failed
ReadFailed == FileBefore = << >> \/ out.fault = "read"

\* the fields of a record but its checksum
DataFields == {Layout[i] : i \in 1..Len(Layout)} \ {"crc32"}

\* the calls of the session on the redundant store
StoreCalls ==
    {k \in 1..Len(out.trace) :
        out.trace[k].op \in {"bgenv_init", "bgenv_open_by_index", "bgenv_open_latest",
                             "bgenv_open_oldest", "bgenv_write", "bgenv_close",
                             "bgenv_finalize"}}

\* the session has opened the file for writing
OpenedForWriting == \E k \in 1..Len(out.trace) : out.trace[k].op = "fopen_wb"

\* C21: in file mode the journal is applied to the all-zero record, or with
\* --preserve to the record read from the file, and the fields no action
\* touches keep the values of this baseline; with --preserve and a failed read the
\* session returns 1 without opening the file for writing or changing it; and
\* no call on the redundant store is made and no slot changes
C21_FileMode ==
    FileMode =>
        /\ StoreCalls = {} /\ slots = before.slots
        /\ (arguments.preserve_env /\ ReadFailed) =>
               /\ out.result = 1
               /\ ~OpenedForWriting /\ ~out.replayed
               /\ files = before.files
        /\ (arguments.preserve_env /\ ~ReadFailed) =>
               /\ out.replayed /\ out.base = FileBefore[1]
               /\ \A f \in DataFields : ~Touched(f) => out.stored[f] = FileBefore[1][f]
        /\ ~arguments.preserve_env =>
               /\ out.replayed /\ out.base = ZeroData
               /\ \A f \in DataFields : ~Touched(f) => out.stored[f] = ZeroData[f]
        /\ (out.replayed /\ out.wrote = "ok") => files[PathOf(arguments)] = <<out.stored>>

\* --preserve with an action on the kernel: the file written has the new kernel
\* and the arguments the file had
C21_Witness ==
    /\ FileMode /\ arguments.preserve_env /\ ~ReadFailed
    /\ added /= << >> /\ Touched("kernelfile") /\ ~Touched("kernelparams")
    /\ out.wrote = "ok"
    /\ files[PathOf(arguments)][1].kernelfile /= FileBefore[1].kernelfile
    /\ files[PathOf(arguments)][1].kernelparams = FileBefore[1].kernelparams
    /\ FileBefore[1].kernelparams /= << >>

\* --preserve on a path with no file: nothing is written
C21_ReadFailed ==
    /\ FileMode /\ arguments.preserve_env /\ ReadFailed /\ added /= << >>
    /\ out.result = 1 /\ files = before.files

\* without --preserve the file written has nothing of the file before
C21_FromZero ==
    /\ FileMode /\ ~arguments.preserve_env /\ FileBefore /= << >>
    /\ out.wrote = "ok" /\ Touched("kernelfile")
    /\ files[PathOf(arguments)][1].kernelparams = << >>
    /\ files[PathOf(arguments)][1].revision = 0

\* positions of the trace of the session, by what is called there
TraceAt(ops) == {k \in 1..Len(out.trace) : out.trace[k].op \in ops}

Inits == TraceAt({"bgenv_init"})
Finalizes == TraceAt({"bgenv_finalize"})
Opens == TraceAt({"bgenv_open_by_index", "bgenv_open_latest", "bgenv_open_oldest"})
Closes == TraceAt({"bgenv_close"})

\* every access to a slot or to the record of a handle: open, write, close, and
\* the reads and writes of the tool itself
SlotAccesses ==
    Opens \cup Closes
    \cup TraceAt({"bgenv_write", "dump_env", "memcpy", "update_environment"})

\* bgenv_init has been called and has succeeded
InitSucceeded == Inits /= {} /\ out.fault /= "init"

\* the opens that have returned a handle
Opened == {k \in Opens : out.trace[k].h /= 0}

\* the positions where handle h is opened, closed, or used in any way
ClosesOf(h) == {c \in Closes : out.trace[c].h = h}
AccessesOf(h) == {k \in SlotAccesses : out.trace[k].h = h}

\* C22: every open, write, close and use of a slot comes after a successful
\* bgenv_init and before bgenv_finalize; after a successful bgenv_init,
\* bgenv_finalize is called exactly once, as the last call; every handle opened
\* is closed exactly once, after its open, and is not used after its close nor
\* before its open; without a successful bgenv_init there is no such call
C22_Bracketing ==
    pc \in {"done", "printed"} =>
        /\ Cardinality(Inits) <= 1
        /\ \A k \in SlotAccesses :
               /\ InitSucceeded
               /\ \E i \in Inits : i < k
               /\ \A f \in Finalizes : k < f
        /\ InitSucceeded =>
               /\ Cardinality(Finalizes) = 1
               /\ out.trace[Len(out.trace)].op = "bgenv_finalize"
               /\ out.trace[1].op = "bgenv_init"
        /\ ~InitSucceeded => Finalizes = {}
        /\ \A k \in Opened :
               /\ Cardinality(ClosesOf(out.trace[k].h)) = 1
               /\ \A o \in Opened : out.trace[o].h = out.trace[k].h => o = k
               /\ \A u \in AccessesOf(out.trace[k].h) :
                      /\ k <= u
                      /\ \A c \in ClosesOf(out.trace[k].h) : u <= c
        /\ \A k \in SlotAccesses \ (Opens \cup Closes) :
               \E o \in Opened : out.trace[o].h = out.trace[k].h

\* a verbose auto-update: every slot opened and closed for the dump, the latest
\* and the oldest opened, the oldest written, all closed, the store finalized
C22_Witness ==
    /\ pc = "done"
    /\ arguments.auto_update /\ arguments.verbosity
    /\ out.wrote = "ok"
    /\ Cardinality(Opened) = ENV_NUM_CONFIG_PARTS + 2
    /\ Cardinality(Closes) = ENV_NUM_CONFIG_PARTS + 2
    /\ Cardinality(Finalizes) = 1

\* a session in which the target could not be opened: NULL is closed, the store
\* is finalized
C22_FailedOpen ==
    /\ pc = "done"
    /\ InitSucceeded
    /\ \E k \in Opens : out.trace[k].h = 0
    /\ Cardinality(Finalizes) = 1

\* bg_printenv has opened, printed and closed a slot
C22_Printed ==
    /\ pc = "printed"
    /\ InitSucceeded
    /\ Opened /= {} /\ Cardinality(Finalizes) = 1

\* a Set on the kernel or on its arguments
KernelTextSet(a) == a.task = ENV_TASK_SET /\ a.key \in {K_kernelfile, K_kernelparams}

\* a text that with its terminating zero fits a field of ENV_STRING_LENGTH units
Fits(text) == Len(text) + 1 <= ENV_STRING_LENGTH

\* C23: every Set on the kernel or its arguments in the journal has a text that
\* fits the field with its terminating zero; and -k and -a with a text that does
\* not fit are refused and add no action
C23_Claim ==
    /\ \A n \in 1..Len(added) : KernelTextSet(added[n]) => Fits(added[n].data)
    /\ (pc = "parse" /\ IsSetenv(menu.argv0)) =>
           \A o \in menu.opts :
               (o[1] \in {"k", "a"} /\ ~Fits(o[2])) =>
                   /\ ParserReturns(o) /= 0
                   /\ parse_setenv_opt(o[1], o[2], head, arguments, FALSE, FALSE).new = << >>

\* -k with a text of ENV_STRING_LENGTH characters has been accepted, and the
\* session has written a record
C23_Accepted ==
    /\ pc = "done" /\ out.wrote = "ok"
    /\ \E n \in 1..Len(added) :
          /\ KernelTextSet(added[n])
          /\ Len(added[n].data) = ENV_STRING_LENGTH

\* the tool of this behaviour is bg_printenv
IsPrintenv == ~IsSetenv(menu.argv0)

\* the calls that change a slot, a file or the record of a handle
ChangingCalls ==
    TraceAt({"bgenv_write", "fopen_wb", "fwrite", "update_environment", "memcpy"})

\* C24: bg_printenv queues no action, replays nothing, hands nothing to the state
\* setter, calls neither bgenv_write nor fopen for writing, and leaves all slots
\* and files as they were, for every command line and every fault
C24_ReadOnly ==
    IsPrintenv =>
        /\ head = << >> /\ added = << >>
        /\ slots = before.slots /\ files = before.files
        /\ ~out.replayed /\ out.applied = << >>
        /\ out.handed = << >> /\ out.rets = << >>
        /\ out.wrote = "none" /\ ~out.success
        /\ ChangingCalls = {}

\* bg_printenv -c has printed the latest slot
C24_Witness ==
    /\ IsPrintenv /\ pc = "printed"
    /\ arguments.current
    /\ out.result = 0
    /\ out.printed /= << >>
    /\ \E i \in Parts : out.printed[1].data = slots[i + 1]
    /\ slots = before.slots /\ files = before.files

====
